---------------------------- MODULE Spec2Model ----------------------------
(***************************************************************************)
(* Verification model of the todo-api-rust example:                        *)
(*   - config/mod.rs : AppConfig::new (defaults overlaid with TODO_API_*   *)
(*                     environment variables) and AppConfig::server_address*)
(*   - main.rs       : the start-up sequence of main                       *)
(*   - models/mod.rs : the derived validation of CreateTodoRequest and     *)
(*                     UpdateTodoRequest, and From<Todo> for TodoResponse  *)
(*                                                                         *)
(* Text is a sequence of one-character strings.  An environment variable   *)
(* name is the sequence of its words, the words being what "_" separates:  *)
(* TODO_API_SERVER_PORT is <<"TODO","API","SERVER","PORT">>.  A field      *)
(* identifier is a sequence of words too (max_connections is               *)
(* <<"max","connections">>), and a configuration key is a sequence of      *)
(* identifiers, what "." separates.                                        *)
(***************************************************************************)
EXTENDS Integers, Sequences, FiniteSets, TLC

VARIABLES
    env,        \* the process environment: variable name -> text
    narrowing,  \* how the linked config crate narrows an integer to the field's width
    pc,         \* position of main
    loaded,     \* what AppConfig::new() returned to main
    logged,     \* the address main wrote to the log
    app_state,  \* the AppState main created
    routes,     \* whether main built the routes
    listener,   \* the socket address main serves on
    request,    \* a CreateTodoRequest or UpdateTodoRequest handed to validate()
    outcome,    \* what validate() returned for it
    converted   \* the (Todo, TodoResponse) pairs produced by TodoResponse::from

vars == <<env, narrowing, pc, loaded, logged, app_state, routes, listener,
          request, outcome, converted>>

configVars == <<env, narrowing, pc, loaded, logged, app_state, routes, listener>>
modelVars  == <<request, outcome, converted>>

None == [some |-> FALSE]
Some(v) == [some |-> TRUE, value |-> v]

----------------------------------------------------------------------------
(* Bounds of the model *)

\* At most this many variables are set in the environment main starts in.
MaxEnvVars == 2

\* Upper end of the title lengths tried (the limit is 255).
MaxTitleLen == 257

\* Upper end of the description lengths tried (the limit is 1000).
MaxDescLen == 1002

\* How many Todos are converted in one behaviour.
MaxConversions == 2

----------------------------------------------------------------------------
(* Text helpers *)

Digits == <<"0", "1", "2", "3", "4", "5", "6", "7", "8", "9">>

IsDigit(c) == \E i \in 1..10 : Digits[i] = c

DigitVal(c) == (CHOOSE i \in 1..10 : Digits[i] = c) - 1

\* Rust's Display of an unsigned integer: decimal, no padding, "0" for zero.
RECURSIVE Decimal(_)
Decimal(n) ==
    IF n < 10 THEN <<Digits[n + 1]>>
    ELSE Decimal(n \div 10) \o <<Digits[(n % 10) + 1]>>

\* Display of an i64.
DecimalSigned(v) == IF v < 0 THEN <<"-">> \o Decimal(0 - v) ELSE Decimal(v)

UpperLetters == <<"A","B","C","D","E","F","G","H","I","J","K","L","M",
                  "N","O","P","Q","R","S","T","U","V","W","X","Y","Z">>
LowerLetters == <<"a","b","c","d","e","f","g","h","i","j","k","l","m",
                  "n","o","p","q","r","s","t","u","v","w","x","y","z">>

LowerChar(c) ==
    IF \E i \in 1..26 : UpperLetters[i] = c
    THEN LowerLetters[CHOOSE i \in 1..26 : UpperLetters[i] = c]
    ELSE c

\* str::to_lowercase on the texts of the model (ASCII).
to_lowercase(s) == [i \in 1..Len(s) |-> LowerChar(s[i])]

\* str::to_lowercase on the words environment variable names are made of.
LowerWord ==
    ("TODO" :> "todo") @@ ("API" :> "api") @@ ("APP" :> "app") @@
    ("SERVER" :> "server") @@ ("PORT" :> "port") @@
    ("DATABASE" :> "database") @@ ("URL" :> "url") @@
    ("MAX" :> "max") @@ ("CONNECTIONS" :> "connections")

IsPrefix(p, q) == Len(p) <= Len(q) /\ SubSeq(q, 1, Len(p)) = p


----------------------------------------------------------------------------
(* config/mod.rs: the environment the process is started in *)

PREFIX == <<"TODO", "API">>

ENV_SERVER_PORT == <<"TODO", "API", "SERVER", "PORT">>
ENV_DATABASE_URL == <<"TODO", "API", "DATABASE", "URL">>
ENV_DATABASE_MAX_CONNECTIONS == <<"TODO", "API", "DATABASE", "MAX", "CONNECTIONS">>
\* A variable of another application, which the prefix must leave out.
ENV_FOREIGN == <<"APP", "SERVER", "PORT">>

EnvNames == {ENV_SERVER_PORT, ENV_DATABASE_URL, ENV_DATABASE_MAX_CONNECTIONS,
             ENV_FOREIGN}

TXT_8080 == <<"8", "0", "8", "0">>
TXT_20 == <<"2", "0">>
TXT_0 == <<"0">>
TXT_007 == <<"0", "0", "7">>
TXT_65535 == <<"6", "5", "5", "3", "5">>
TXT_65536 == <<"6", "5", "5", "3", "6">>
TXT_70000 == <<"7", "0", "0", "0", "0">>
TXT_MINUS_1 == <<"-", "1">>
TXT_abc == <<"a", "b", "c">>
TXT_true == <<"t", "r", "u", "e">>
TXT_TRUE == <<"T", "R", "U", "E">>
TXT_false == <<"f", "a", "l", "s", "e">>
TXT_on == <<"o", "n">>
TXT_yes == <<"y", "e", "s">>
TXT_off == <<"o", "f", "f">>
TXT_no == <<"n", "o">>
TXT_pg_prod == <<"p", "g", ":", "/", "/", "d", "b", "/", "p", "r", "o", "d">>

\* The texts environment variables are given.  None of them is a floating
\* point literal (digits with "." or an exponent, "inf", "nan"), the one
\* form try_parsing reads that ParseValue below leaves out.
EnvTexts == {TXT_8080, TXT_20, TXT_0, TXT_007, TXT_65535, TXT_65536, TXT_70000,
             TXT_MINUS_1, TXT_abc, TXT_true, TXT_TRUE, TXT_yes, TXT_pg_prod}

\* Every environment of at most MaxEnvVars variables.
Environments ==
    UNION {[names -> EnvTexts] :
             names \in {n \in SUBSET EnvNames : Cardinality(n) <= MaxEnvVars}}

\* How the config crate narrows an integer to u16/u32 depends on the version
\* the build links (the source pins none):
\*   "truncating"          into_int()? as uN    (0.12)
\*   "truncating_unsigned" into_uint()? as uN   (0.13: a negative value is an error)
\*   "checked"             try_into             (0.14 and later)
Narrowings == {"truncating", "truncating_unsigned", "checked"}

----------------------------------------------------------------------------
(* config/mod.rs: values of the config crate *)

VString(s) == [kind |-> "String", text |-> s]
VI64(v) == [kind |-> "I64", int |-> v]
VBoolean(b) == [kind |-> "Boolean", bool |-> b]

\* str::parse::<i64>: an optional sign and then one or more digits.
IsI64(s) ==
    LET body == IF Len(s) > 0 /\ s[1] \in {"+", "-"} THEN Tail(s) ELSE s
    IN  Len(body) > 0 /\ \A i \in 1..Len(body) : IsDigit(body[i])

RECURSIVE NatOf(_)
NatOf(ds) ==
    IF Len(ds) = 0 THEN 0
    ELSE 10 * NatOf(SubSeq(ds, 1, Len(ds) - 1)) + DigitVal(ds[Len(ds)])

I64Of(s) ==
    IF s[1] = "-" THEN 0 - NatOf(Tail(s))
    ELSE IF s[1] = "+" THEN NatOf(Tail(s))
    ELSE NatOf(s)

\* Environment::try_parsing(true): bool first (on the lowercased text), then
\* i64, otherwise the text itself.
ParseValue(s) ==
    IF to_lowercase(s) = TXT_true THEN VBoolean(TRUE)
    ELSE IF to_lowercase(s) = TXT_false THEN VBoolean(FALSE)
    ELSE IF IsI64(s) THEN VI64(I64Of(s))
    ELSE VString(s)

\* Value::into_int
into_int(v) ==
    IF v.kind = "I64" THEN [ok |-> TRUE, int |-> v.int]
    ELSE IF v.kind = "Boolean" THEN [ok |-> TRUE, int |-> IF v.bool THEN 1 ELSE 0]
    ELSE IF v.kind = "String" THEN
        IF to_lowercase(v.text) \in {TXT_true, TXT_on, TXT_yes}
            THEN [ok |-> TRUE, int |-> 1]
        ELSE IF to_lowercase(v.text) \in {TXT_false, TXT_off, TXT_no}
            THEN [ok |-> TRUE, int |-> 0]
        ELSE IF IsI64(v.text) THEN [ok |-> TRUE, int |-> I64Of(v.text)]
        ELSE [ok |-> FALSE]
    ELSE [ok |-> FALSE]

\* Value::into_string
into_string(v) ==
    IF v.kind = "String" THEN [ok |-> TRUE, text |-> v.text]
    ELSE IF v.kind = "I64" THEN [ok |-> TRUE, text |-> DecimalSigned(v.int)]
    ELSE IF v.kind = "Boolean"
        THEN [ok |-> TRUE, text |-> IF v.bool THEN TXT_true ELSE TXT_false]
    ELSE [ok |-> FALSE]

U16_MAX == 65535

\* Deserializing the field `port: u16`.
deserialize_u16(v, mode) ==
    LET n == into_int(v)
    IN  IF ~n.ok THEN [ok |-> FALSE]
        ELSE IF mode = "truncating" THEN [ok |-> TRUE, int |-> n.int % (U16_MAX + 1)]
        ELSE IF n.int < 0 THEN [ok |-> FALSE]
        ELSE IF mode = "truncating_unsigned"
            THEN [ok |-> TRUE, int |-> n.int % (U16_MAX + 1)]
        ELSE IF n.int <= U16_MAX THEN [ok |-> TRUE, int |-> n.int]
        ELSE [ok |-> FALSE]

\* Deserializing the field `max_connections: u32`.  The integers of the model
\* are below 2^31, so a non-negative one always fits and only a negative one
\* is cast or refused.
deserialize_u32(v, mode) ==
    LET n == into_int(v)
    IN  IF ~n.ok THEN [ok |-> FALSE]
        ELSE IF n.int >= 0 THEN [ok |-> TRUE, int |-> n.int]
        ELSE IF mode = "truncating" THEN [ok |-> TRUE, int |-> n.int % (2 ^ 32)]
        ELSE [ok |-> FALSE]

\* Deserializing the field `url: String`.
deserialize_string(v) == into_string(v)

----------------------------------------------------------------------------
(* config/mod.rs: AppConfig::new *)

\* Field identifiers, as the words "_" separates.
ID_server == <<"server">>
ID_port == <<"port">>
ID_database == <<"database">>
ID_url == <<"url">>
ID_max_connections == <<"max", "connections">>

\* Configuration keys, as the identifiers "." separates.
KEY_server_port == <<ID_server, ID_port>>
KEY_database_url == <<ID_database, ID_url>>
KEY_database_max_connections == <<ID_database, ID_max_connections>>

DEFAULT_PORT == 3000
DEFAULT_MAX_CONNECTIONS == 10
DEFAULT_URL ==
    <<"p","o","s","t","g","r","e","s","q","l",":","/","/",
      "l","o","c","a","l","h","o","s","t","/","t","o","d","o","a","p","p">>

\* The value tree the builder holds, as a function from the keys of its
\* leaves to their values.  Storing at a key turns every value on the way
\* to it into a table and replaces what was stored at or below it.
set_path(cache, key, value) ==
    [k \in {q \in DOMAIN cache : ~IsPrefix(key, q) /\ ~IsPrefix(q, key)} \cup {key}
        |-> IF k = key THEN value ELSE cache[k]]

\* Defaults with the third set_default call left out.
Defaults_without_max_connections ==
    set_path(set_path(<<>>,
        KEY_server_port, VI64(DEFAULT_PORT)),
        KEY_database_url, VString(DEFAULT_URL))

\* The three set_default calls.
Defaults ==
    set_path(set_path(set_path(<<>>,
        KEY_server_port, VI64(DEFAULT_PORT)),
        KEY_database_url, VString(DEFAULT_URL)),
        KEY_database_max_connections, VI64(DEFAULT_MAX_CONNECTIONS))

\* Environment::with_prefix("TODO_API"): with no prefix separator given, the
\* separator "_" follows the prefix, so a name passes when it starts with
\* "todo_api_" once lowercased.
HasPrefix(name) ==
    /\ Len(name) > Len(PREFIX)
    /\ \A i \in 1..Len(PREFIX) : LowerWord[name[i]] = LowerWord[PREFIX[i]]

\* The key of a variable: the prefix is removed and every separator "_" of
\* the lowercased rest becomes ".", so each word is an identifier of its own.
env_key(name) ==
    [i \in 1..(Len(name) - Len(PREFIX)) |-> <<LowerWord[name[Len(PREFIX) + i]]>>]

\* Environment::collect: key -> parsed value, for the variables with the prefix.
collect(e) ==
    {[key |-> env_key(n), value |-> ParseValue(e[n])] :
        n \in {m \in DOMAIN e : HasPrefix(m)}}

\* ConfigBuilder::build: the defaults, then the entries of the source.  The
\* source hands them over in the order of a hash map; the names of EnvNames
\* give keys none of which is at or below another, so the order is immaterial.
RECURSIVE merge(_, _)
merge(cache, entries) ==
    IF entries = {} THEN cache
    ELSE LET en == CHOOSE x \in entries : TRUE
         IN  merge(set_path(cache, en.key, en.value), entries \ {en})

build(e) == merge(Defaults, collect(e))

\* What deserializing a struct field finds at a key: a leaf, a table or nothing.
lookup(cache, key) ==
    IF key \in DOMAIN cache THEN [found |-> "leaf", value |-> cache[key]]
    ELSE IF \E q \in DOMAIN cache : IsPrefix(key, q) THEN [found |-> "table"]
    ELSE [found |-> "missing"]

ConfigError == [ok |-> FALSE, error |-> "ConfigError"]

\* Config::try_deserialize::<AppConfig>: server.port, database.url and
\* database.max_connections, each required; keys no field names are ignored.
try_deserialize(cache, mode) ==
    LET port == lookup(cache, KEY_server_port)
        url == lookup(cache, KEY_database_url)
        maxc == lookup(cache, KEY_database_max_connections)
    IN  IF port.found # "leaf" \/ url.found # "leaf" \/ maxc.found # "leaf"
        THEN ConfigError
        ELSE LET p == deserialize_u16(port.value, mode)
                 u == deserialize_string(url.value)
                 m == deserialize_u32(maxc.value, mode)
             IN  IF ~p.ok \/ ~u.ok \/ ~m.ok THEN ConfigError
                 ELSE [ok |-> TRUE,
                       config |-> [server |-> [port |-> p.int],
                                   database |-> [url |-> u.text,
                                                 max_connections |-> m.int]]]

AppConfig_new(e, mode) == try_deserialize(build(e), mode)

\* server_address with the ":" of the format string left out.
server_address_without_colon(config) ==
    <<"0", ".", "0", ".", "0", ".", "0">> \o Decimal(config.server.port)

\* format!("0.0.0.0:{}", self.server.port)
server_address(config) ==
    <<"0", ".", "0", ".", "0", ".", "0", ":">> \o Decimal(config.server.port)

----------------------------------------------------------------------------
(* main.rs: main *)

NotLoaded == [ok |-> FALSE, error |-> "not loaded"]

InitConfigIdle ==
    /\ loaded = NotLoaded
    /\ logged = None
    /\ app_state = None
    /\ routes = FALSE
    /\ listener = None

\* MainLoadConfig with the error of AppConfig::new() not propagated.
MainLoadConfig_ignoring_error ==
    /\ pc = "start"
    /\ loaded' = AppConfig_new(env, narrowing)
    /\ pc' = "loaded"
    /\ UNCHANGED <<env, narrowing, logged, app_state, routes, listener>>
    /\ UNCHANGED <<request, outcome, converted>>

\* main.rs:18, the error branch of `?`: main returns the error.
MainLoadConfig ==
    /\ pc = "start"
    /\ loaded' = AppConfig_new(env, narrowing)
    /\ pc' = IF loaded'.ok THEN "loaded" ELSE "exit_err"
    /\ UNCHANGED <<env, narrowing, logged, app_state, routes, listener>>
    /\ UNCHANGED modelVars

\* main.rs:19
MainLogAddress ==
    /\ pc = "loaded"
    /\ logged' = Some(server_address(loaded.config))
    /\ pc' = "logged"
    /\ UNCHANGED <<env, narrowing, loaded, app_state, routes, listener>>
    /\ UNCHANGED modelVars

\* services::AppState::new(config): the state keeps the configuration it is given.
AppState_new(config) == [config |-> config]

\* main.rs:22, AppState::new succeeds.
MainCreateState ==
    /\ pc = "logged"
    /\ app_state' = Some(AppState_new(loaded.config))
    /\ pc' = "state"
    /\ UNCHANGED <<env, narrowing, loaded, logged, routes, listener>>
    /\ UNCHANGED modelVars

\* main.rs:22, AppState::new fails and `?` returns the error.
MainCreateStateFails ==
    /\ pc = "logged"
    /\ pc' = "exit_err"
    /\ UNCHANGED <<env, narrowing, loaded, logged, app_state, routes, listener>>
    /\ UNCHANGED modelVars

\* main.rs:25-30
MainBuildRoutes ==
    /\ pc = "state"
    /\ routes' = TRUE
    /\ pc' = "routes"
    /\ UNCHANGED <<env, narrowing, loaded, logged, app_state, listener>>
    /\ UNCHANGED modelVars

\* main.rs:33-35: the listener is bound and serves until the process ends.
MainServe ==
    /\ pc = "routes"
    /\ listener' = Some([host |-> <<0, 0, 0, 0>>,
                         port |-> app_state.value.config.server.port])
    /\ pc' = "serving"
    /\ UNCHANGED <<env, narrowing, loaded, logged, app_state, routes>>
    /\ UNCHANGED modelVars

MainNext ==
    \/ MainLoadConfig
    \/ MainLogAddress
    \/ MainCreateState
    \/ MainCreateStateFails
    \/ MainBuildRoutes
    \/ MainServe

----------------------------------------------------------------------------
(* models/mod.rs: #[derive(Validate)] on the request shapes *)

\* The String of a request field, held as its runs of equal characters:
\* "aaab" is <<[char |-> "a", count |-> 3], [char |-> "b", count |-> 1]>>.
\* A String of n characters "a":
Str(n) == IF n = 0 THEN <<>> ELSE <<[char |-> "a", count |-> n]>>

\* s.chars().count()
RECURSIVE chars_count(_)
chars_count(s) ==
    IF Len(s) = 0 THEN 0 ELSE s[1].count + chars_count(Tail(s))

\* validate_length with the upper bound taken as exclusive.
validate_length_exclusive_max(s, min, max) ==
    /\ min.some => chars_count(s) >= min.value
    /\ max.some => chars_count(s) < max.value

\* validator::validate_length on a String: the number of characters against
\* the bounds given, both inclusive.
validate_length(s, min, max) ==
    /\ min.some => chars_count(s) >= min.value
    /\ max.some => chars_count(s) <= max.value

CREATE_TITLE_MIN == 1
CREATE_TITLE_MAX == 255
CREATE_DESCRIPTION_MAX == 1000
UPDATE_TITLE_MIN == 1
UPDATE_TITLE_MAX == 255
UPDATE_DESCRIPTION_MAX == 1000

TITLE_MESSAGE == "Title must be between 1 and 255 characters"
DESCRIPTION_MESSAGE == "Description must be less than 1000 characters"

\* A ValidationError of the length validator.
LengthError(message) == [code |-> "length", message |-> message]

\* ValidationErrors: field name -> the errors of the field.
NoErrors == [f \in {} |-> <<>>]

\* ValidationErrors::add
add(errors, field, error) ==
    [f \in DOMAIN errors \cup {field} |->
        IF f \in DOMAIN errors
        THEN IF f = field THEN Append(errors[f], error) ELSE errors[f]
        ELSE <<error>>]

\* The end of a derived validate(): Ok(()) when no error was added.
result_of(errors) ==
    IF DOMAIN errors = {} THEN [ok |-> TRUE] ELSE [ok |-> FALSE, errors |-> errors]

\* CreateTodoRequest's validate() with the title checked against max only.
CreateTodoRequest_validate_without_min(r) ==
    LET e1 == IF chars_count(r.title) > 255
              THEN [title |-> <<[code |-> "length",
                                 message |-> "Title must be between 1 and 255 characters"]>>]
              ELSE [f \in {} |-> <<>>]
        e2 == IF r.description.some /\ chars_count(r.description.value) > 1000
              THEN [f \in DOMAIN e1 \cup {"description"} |->
                       IF f \in DOMAIN e1 THEN e1[f]
                       ELSE <<[code |-> "length",
                               message |-> "Description must be less than 1000 characters"]>>]
              ELSE e1
    IN  IF DOMAIN e2 = {} THEN [ok |-> TRUE] ELSE [ok |-> FALSE, errors |-> e2]

\* CreateTodoRequest's validate() returning at the first field in error.
CreateTodoRequest_validate_first_error_only(r) ==
    IF chars_count(r.title) < 1 \/ chars_count(r.title) > 255
    THEN [ok |-> FALSE,
          errors |-> [title |-> <<[code |-> "length",
                                   message |-> "Title must be between 1 and 255 characters"]>>]]
    ELSE IF r.description.some /\ chars_count(r.description.value) > 1000
    THEN [ok |-> FALSE,
          errors |-> [description |-> <<[code |-> "length",
                                         message |-> "Description must be less than 1000 characters"]>>]]
    ELSE [ok |-> TRUE]

\* CreateTodoRequest: title is a String, description an Option<String>; a
\* field of type Option is validated only when it is Some.
CreateTodoRequest_validate(r) ==
    LET e1 == IF ~validate_length(r.title, Some(CREATE_TITLE_MIN), Some(CREATE_TITLE_MAX))
              THEN add(NoErrors, "title", LengthError(TITLE_MESSAGE))
              ELSE NoErrors
        e2 == IF /\ r.description.some
                 /\ ~validate_length(r.description.value, None, Some(CREATE_DESCRIPTION_MAX))
              THEN add(e1, "description", LengthError(DESCRIPTION_MESSAGE))
              ELSE e1
    IN  result_of(e2)

\* UpdateTodoRequest's validate() with an absent title taken as a title of length 0.
UpdateTodoRequest_validate_title_required(r) ==
    LET e1 == IF ~r.title.some \/ chars_count(r.title.value) < 1 \/ chars_count(r.title.value) > 255
              THEN [title |-> <<[code |-> "length",
                                 message |-> "Title must be between 1 and 255 characters"]>>]
              ELSE [f \in {} |-> <<>>]
        e2 == IF r.description.some /\ chars_count(r.description.value) > 1000
              THEN [f \in DOMAIN e1 \cup {"description"} |->
                       IF f \in DOMAIN e1 THEN e1[f]
                       ELSE <<[code |-> "length",
                               message |-> "Description must be less than 1000 characters"]>>]
              ELSE e1
    IN  IF DOMAIN e2 = {} THEN [ok |-> TRUE] ELSE [ok |-> FALSE, errors |-> e2]

\* UpdateTodoRequest: every field an Option; completed carries no validator.
UpdateTodoRequest_validate(r) ==
    LET e1 == IF /\ r.title.some
                 /\ ~validate_length(r.title.value, Some(UPDATE_TITLE_MIN), Some(UPDATE_TITLE_MAX))
              THEN add(NoErrors, "title", LengthError(TITLE_MESSAGE))
              ELSE NoErrors
        e2 == IF /\ r.description.some
                 /\ ~validate_length(r.description.value, None, Some(UPDATE_DESCRIPTION_MAX))
              THEN add(e1, "description", LengthError(DESCRIPTION_MESSAGE))
              ELSE e1
    IN  result_of(e2)

TitleLens == 0..MaxTitleLen
DescLens == {0, 1} \cup ((CREATE_DESCRIPTION_MAX - 2)..MaxDescLen)

Titles == {Str(n) : n \in TitleLens}
OptTitles == {None} \cup {Some(t) : t \in Titles}
OptDescriptions == {None} \cup {Some(Str(n)) : n \in DescLens}
OptBools == {None, Some(TRUE), Some(FALSE)}

CreateTodoRequests ==
    {[kind |-> "create", title |-> t, description |-> d] :
        t \in Titles, d \in OptDescriptions}

UpdateTodoRequests ==
    {[kind |-> "update", title |-> t, description |-> d, completed |-> c] :
        t \in OptTitles, d \in OptDescriptions, c \in OptBools}

NoRequest == [kind |-> "none"]
Pending == [ok |-> FALSE, pending |-> TRUE]

ValidateCreate ==
    /\ request.kind = "create"
    /\ outcome = Pending
    /\ outcome' = CreateTodoRequest_validate(request)
    /\ UNCHANGED <<request, converted>>
    /\ UNCHANGED configVars

ValidateUpdate ==
    /\ request.kind = "update"
    /\ outcome = Pending
    /\ outcome' = UpdateTodoRequest_validate(request)
    /\ UNCHANGED <<request, converted>>
    /\ UNCHANGED configVars

ValidateNext ==
    \/ ValidateCreate
    \/ ValidateUpdate

----------------------------------------------------------------------------
(* models/mod.rs: impl From<Todo> for TodoResponse *)

\* TodoResponse::from with updated_at filled from created_at.
TodoResponse_from_stale_updated_at(todo) ==
    [id |-> todo.id,
     title |-> todo.title,
     description |-> todo.description,
     completed |-> todo.completed,
     created_at |-> todo.created_at,
     updated_at |-> todo.created_at]

TodoResponse_from(todo) ==
    [id |-> todo.id,
     title |-> todo.title,
     description |-> todo.description,
     completed |-> todo.completed,
     created_at |-> todo.created_at,
     updated_at |-> todo.updated_at]

\* Todos: two ids, two titles, an absent, an empty and a non-empty
\* description, both flags, two instants for each timestamp.
Todos ==
    [id : {1, 2},
     title : {<<"a">>, <<"b">>},
     description : {None, Some(<<>>), Some(<<"x">>)},
     completed : BOOLEAN,
     created_at : {0, 1},
     updated_at : {0, 1}]

Convert ==
    /\ Cardinality(converted) < MaxConversions
    /\ \E todo \in Todos :
          converted' = converted \cup {<<todo, TodoResponse_from(todo)>>}
    /\ UNCHANGED <<request, outcome>>
    /\ UNCHANGED configVars

----------------------------------------------------------------------------
(* Specifications *)

\* main, started in any environment of at most MaxEnvVars variables.
Init ==
    /\ env \in Environments
    /\ narrowing \in Narrowings
    /\ pc = "start"
    /\ InitConfigIdle
    /\ request = NoRequest
    /\ outcome = Pending
    /\ converted = {}

Next == MainNext

Spec == Init /\ [][Next]_vars

\* main in a build whose config crate refuses an integer that does not fit
\* the field (the narrowing that loses no value).
InitChecked == Init /\ narrowing = "checked"

SpecChecked == InitChecked /\ [][Next]_vars

\* main, started with TODO_API_SERVER_PORT set to each port in turn.
InitAddress ==
    /\ \E p \in 0..U16_MAX : env = (ENV_SERVER_PORT :> Decimal(p))
    /\ narrowing \in Narrowings
    /\ pc = "start"
    /\ InitConfigIdle
    /\ request = NoRequest
    /\ outcome = Pending
    /\ converted = {}

SpecAddress == InitAddress /\ [][MainNext]_vars

\* validate() on each request.
InitValidate ==
    /\ env = <<>>
    /\ narrowing = "checked"
    /\ pc = "start"
    /\ InitConfigIdle
    /\ request \in CreateTodoRequests \cup UpdateTodoRequests
    /\ outcome = Pending
    /\ converted = {}

SpecValidate == InitValidate /\ [][ValidateNext]_vars

\* TodoResponse::from on up to MaxConversions Todos.
InitConvert ==
    /\ env = <<>>
    /\ narrowing = "checked"
    /\ pc = "start"
    /\ InitConfigIdle
    /\ request = NoRequest
    /\ outcome = Pending
    /\ converted = {}

SpecConvert == InitConvert /\ [][Convert]_vars

----------------------------------------------------------------------------
(* Properties of AppConfig::new and main, under Spec *)

\* The variables of the environment that start with TODO_API_.
TodoApiVariables == {n \in DOMAIN env : Len(n) > 2 /\ n[1] = "TODO" /\ n[2] = "API"}

DefaultConfig ==
    [server |-> [port |-> 3000],
     database |-> [url |-> DEFAULT_URL, max_connections |-> 10]]

\* A text that reads as a decimal integer: an optional sign, then digits.
IsInteger(s) ==
    /\ Len(s) > 0
    /\ \A i \in 2..Len(s) : IsDigit(s[i])
    /\ IsDigit(s[1]) \/ (s[1] \in {"+", "-"} /\ Len(s) > 1)

\* A text that is an integer of 0..max (max below 10^9, so up to 9 digits count).
IsUnsignedUpTo(s, max) ==
    /\ IsInteger(s)
    /\ s[1] # "-"
    /\ I64Of(s) <= max

\* C1: with exactly one TODO_API_ variable set, one of the three supported
\* ones and with a value its field can hold, AppConfig::new() returns a
\* configuration whose field has that value and whose other fields have
\* their defaults.
C1_OverrideChangesOnlyItsField ==
    (pc # "start" /\ Cardinality(TodoApiVariables) = 1) =>
        /\ (ENV_SERVER_PORT \in DOMAIN env
              /\ IsUnsignedUpTo(env[ENV_SERVER_PORT], 65535)) =>
            /\ loaded.ok
            /\ loaded.config =
                 [DefaultConfig EXCEPT !.server.port = I64Of(env[ENV_SERVER_PORT])]
        /\ ENV_DATABASE_URL \in DOMAIN env =>
            /\ loaded.ok
            /\ loaded.config =
                 [DefaultConfig EXCEPT !.database.url = env[ENV_DATABASE_URL]]
        /\ (ENV_DATABASE_MAX_CONNECTIONS \in DOMAIN env
              /\ IsInteger(env[ENV_DATABASE_MAX_CONNECTIONS])
              /\ env[ENV_DATABASE_MAX_CONNECTIONS][1] # "-") =>
            /\ loaded.ok
            /\ loaded.config =
                 [DefaultConfig EXCEPT !.database.max_connections =
                                          I64Of(env[ENV_DATABASE_MAX_CONNECTIONS])]

\* C2: with no TODO_API_ variable in the environment, AppConfig::new()
\* succeeds with port 3000, the default database URL and 10 connections.
C2_DefaultsWithoutOverrides ==
    (pc # "start" /\ TodoApiVariables = {}) =>
        /\ loaded.ok
        /\ loaded.config.server.port = 3000
        /\ loaded.config.database.url = DEFAULT_URL
        /\ loaded.config.database.max_connections = 10

\* C2's case: main got past loading in an environment that holds a variable
\* of another application and none of its own.
C2_Witness ==
    /\ pc = "loaded"
    /\ TodoApiVariables = {}
    /\ ENV_FOREIGN \in DOMAIN env
    /\ loaded.ok
    /\ loaded.config = DefaultConfig

\* C3: when the value given for server.port or database.max_connections is
\* not an integer of the field's range, AppConfig::new() returns an error.
C3_UncoercibleOverrideIsAnError ==
    (/\ pc # "start"
     /\ \/ /\ ENV_SERVER_PORT \in DOMAIN env
           /\ ~IsUnsignedUpTo(env[ENV_SERVER_PORT], 65535)
        \/ /\ ENV_DATABASE_MAX_CONNECTIONS \in DOMAIN env
           /\ ~(/\ IsInteger(env[ENV_DATABASE_MAX_CONNECTIONS])
                /\ env[ENV_DATABASE_MAX_CONNECTIONS][1] # "-"))
    => ~loaded.ok

\* A configuration with every field populated.
IsPopulated(config) ==
    /\ DOMAIN config = {"server", "database"}
    /\ config.server.port \in 0..65535
    /\ config.database.url \in Seq(STRING)
    /\ config.database.max_connections \in Nat

\* C4: nothing of the start-up (the logged address, the AppState, the
\* routes, the listener) exists before AppConfig::new() has returned a fully
\* populated configuration, and when it returned an error main has exited
\* with it and created none of them.
C4_ConfigurationPrecedesStartup ==
    /\ (pc \in {"loaded", "logged", "state", "routes", "serving"}
          \/ logged.some \/ app_state.some \/ routes \/ listener.some) =>
        /\ loaded.ok
        /\ IsPopulated(loaded.config)
        /\ loaded = AppConfig_new(env, narrowing)
    /\ (pc # "start" /\ ~loaded.ok) =>
        /\ pc = "exit_err"
        /\ loaded.error = "ConfigError"
        /\ ~logged.some /\ ~app_state.some /\ ~routes /\ ~listener.some
    /\ listener.some => (pc = "serving" /\ routes /\ app_state.some)

\* C4's case: AppConfig::new() returned an error and main has exited.
C4_Witness ==
    /\ pc = "exit_err"
    /\ ~loaded.ok
    /\ loaded.error = "ConfigError"
    /\ TodoApiVariables # {}

----------------------------------------------------------------------------
(* Properties of server_address, under SpecAddress *)

HOST_TEXT == <<"0", ".", "0", ".", "0", ".", "0">>

\* C10: the logged server_address() is "0.0.0.0:" followed by the port in
\* decimal (no sign, no padding), "0.0.0.0:8080" for port 8080, and the
\* listener is bound to host 0.0.0.0 and that same port.
C10_ServerAddress ==
    logged.some =>
        LET address == logged.value
            port == loaded.config.server.port
            digits == SubSeq(address, 9, Len(address))
        IN  /\ Len(address) > 8
            /\ SubSeq(address, 1, 7) = HOST_TEXT
            /\ address[8] = ":"
            /\ \A i \in 1..Len(digits) : IsDigit(digits[i])
            /\ digits[1] # "0" \/ Len(digits) = 1
            /\ NatOf(digits) = port
            /\ port = 8080 =>
                 address = <<"0", ".", "0", ".", "0", ".", "0", ":", "8", "0", "8", "0">>
            /\ listener.some =>
                 /\ listener.value.port = port
                 /\ Len(listener.value.host) = 4
                 /\ \A i \in 1..4 :
                        NatOf(<<address[2 * i - 1]>>) = listener.value.host[i]

\* C10's case: main serves on port 8080 and logged "0.0.0.0:8080".
C10_Witness ==
    /\ pc = "serving"
    /\ listener = Some([host |-> <<0, 0, 0, 0>>, port |-> 8080])
    /\ logged = Some(<<"0", ".", "0", ".", "0", ".", "0", ":", "8", "0", "8", "0">>)

----------------------------------------------------------------------------
(* Properties of validate(), under SpecValidate *)

Validated == outcome # Pending

HasViolation(field) == ~outcome.ok /\ field \in DOMAIN outcome.errors

\* The title, present and of a length outside [1,255].
TitleOutOfBounds ==
    IF request.kind = "create"
    THEN chars_count(request.title) = 0 \/ chars_count(request.title) > 255
    ELSE request.title.some
            /\ (chars_count(request.title.value) = 0 \/ chars_count(request.title.value) > 255)

\* The description, present and longer than 1000.
DescriptionTooLong ==
    request.description.some /\ chars_count(request.description.value) > 1000

\* C5 as stated: a CreateTodoRequest fails with a title violation when its
\* title has length 0 or above 255, and validation succeeds when the title
\* has length in [1,255].
C5_TitleAloneDecides ==
    (Validated /\ request.kind = "create") =>
        /\ (chars_count(request.title) = 0 \/ chars_count(request.title) > 255) =>
              HasViolation("title")
        /\ chars_count(request.title) \in 1..255 => outcome.ok

\* C5, amended: a CreateTodoRequest fails with a title violation when its
\* title has length 0 or above 255; when the title has length in [1,255]
\* no title violation is reported, and validation succeeds exactly when the
\* description is absent or no longer than 1000.
C5_TitleBounds ==
    (Validated /\ request.kind = "create") =>
        /\ (chars_count(request.title) = 0 \/ chars_count(request.title) > 255) =>
              HasViolation("title")
        /\ chars_count(request.title) \in 1..255 =>
              /\ ~HasViolation("title")
              /\ outcome.ok <=> ~DescriptionTooLong

\* C5's case: a title of 255 characters with a description of 1001.
C5_Witness ==
    /\ Validated
    /\ request.kind = "create"
    /\ chars_count(request.title) = 255
    /\ request.description.some
    /\ chars_count(request.description.value) = 1001
    /\ ~outcome.ok
    /\ DOMAIN outcome.errors = {"description"}

\* C6: for both request shapes a description violation is reported exactly
\* when the description is present and longer than 1000.
C6_DescriptionBound ==
    (Validated /\ request.kind \in {"create", "update"}) =>
        (HasViolation("description") <=> DescriptionTooLong)

\* C6's case: an update whose description has exactly 1000 characters passes.
C6_Witness ==
    /\ Validated
    /\ request.kind = "update"
    /\ request.description.some
    /\ chars_count(request.description.value) = 1000
    /\ ~HasViolation("description")

\* The fields of the request that break their constraint.
ViolatedFields ==
    {f \in {"title"} : TitleOutOfBounds} \cup {f \in {"description"} : DescriptionTooLong}

\* C7: the error of a failed validation holds one violation for each field
\* that breaks its constraint, under the field's name and with its message.
C7_EveryViolationReported ==
    Validated =>
        IF ViolatedFields = {} THEN outcome.ok
        ELSE /\ ~outcome.ok
             /\ DOMAIN outcome.errors = ViolatedFields
             /\ \A f \in ViolatedFields :
                   /\ Len(outcome.errors[f]) = 1
                   /\ outcome.errors[f][1].message =
                        IF f = "title"
                        THEN "Title must be between 1 and 255 characters"
                        ELSE "Description must be less than 1000 characters"

\* C7's case: a CreateTodoRequest with an empty title and a description of 1001.
C7_Witness ==
    /\ Validated
    /\ request.kind = "create"
    /\ chars_count(request.title) = 0
    /\ request.description.some
    /\ chars_count(request.description.value) = 1001
    /\ ~outcome.ok
    /\ DOMAIN outcome.errors = {"title", "description"}

\* C8: an UpdateTodoRequest fails exactly when a present title has length
\* outside [1,255] or a present description is longer than 1000, whatever
\* completed holds.
C8_UpdateFieldsOptional ==
    (Validated /\ request.kind = "update") =>
        /\ ~outcome.ok <=>
              \/ request.title.some
                    /\ (chars_count(request.title.value) < 1 \/ chars_count(request.title.value) > 255)
              \/ request.description.some /\ chars_count(request.description.value) > 1000
        /\ \A c \in OptBools :
              UpdateTodoRequest_validate([request EXCEPT !.completed = c]) = outcome

\* C8's case: the update with all three fields absent is valid.
C8_Witness ==
    /\ Validated
    /\ request.kind = "update"
    /\ request.title = None
    /\ request.description = None
    /\ request.completed = None
    /\ outcome.ok

----------------------------------------------------------------------------
(* Properties of TodoResponse::from, under SpecConvert *)

\* C9: every response carries the six fields of its Todo unchanged, and
\* two conversions with equal responses come from equal Todos.
C9_ResponsePreservesTodo ==
    /\ \A c \in converted :
          /\ DOMAIN c[2] = {"id", "title", "description", "completed",
                            "created_at", "updated_at"}
          /\ c[2].id = c[1].id
          /\ c[2].title = c[1].title
          /\ c[2].description = c[1].description
          /\ c[2].completed = c[1].completed
          /\ c[2].created_at = c[1].created_at
          /\ c[2].updated_at = c[1].updated_at
    /\ \A c, d \in converted : c[2] = d[2] => c[1] = d[1]

\* C9's case: two Todos were converted that differ only in updated_at, or only
\* in an absent against an empty description, and their responses differ.
C9_Witness ==
    \E c, d \in converted :
        /\ c[2] # d[2]
        /\ \/ /\ c[1].updated_at # d[1].updated_at
              /\ [c[1] EXCEPT !.updated_at = d[1].updated_at] = d[1]
           \/ /\ c[1].description = None
              /\ d[1].description = Some(<<>>)
              /\ [c[1] EXCEPT !.description = d[1].description] = d[1]

=============================================================================
